---- MODULE Spec2Model ----
(***************************************************************************)
(* Assignment lifecycle and role-scoped authorization of the pool          *)
(* operations API (routes/assignments.ts, routes/properties.ts,            *)
(* routes/technicians.ts, routes/users.ts).                                *)
(*                                                                         *)
(* The database is the state; every HTTP handler is one atomic action      *)
(* that reads the stored record, runs the handler's checks in source       *)
(* order and either answers an error or writes.  The last request and its  *)
(* answer are kept in `last` so that properties can speak about responses. *)
(***************************************************************************)
EXTENDS Integers, Sequences, FiniteSets, TLC

(* ----------------------------- bounds ---------------------------------- *)
\* number of requests served (the clock advances by one per request)
MaxTime == 3
\* number of assignments that can be created
MaxAssignments == 1
\* number of check() calls made on a rate limiter
MaxChecks == 3

(* ----------------------------- values ---------------------------------- *)
\* JavaScript `undefined` (an absent body key) and SQL NULL for text columns
UNDEF == "undefined"
NULL == "null"
\* SQL NULL for a timestamp column; real instants are >= 1
NullTime == 0

Techs == {"T1", "T2"}
Supervisors == {"S1", "S2"}
Users == Techs \cup Supervisors \cup {"R1", "AD"}
\* an id that is no row of the User table
GhostUser == "GHOST"
Properties == {"P1", "P2"}
\* an id that is no row of the Property table
GhostProperty == "PX"

role(u) ==
  IF u \in Techs THEN "tech"
  ELSE IF u \in Supervisors THEN "supervisor"
  ELSE IF u = "R1" THEN "repair"
  ELSE "admin"

AssignmentStatus == {"pending", "in_progress", "completed", "cancelled"}
AssignmentPriority == {"low", "med", "high"}

\* new Date(s): the instant an ISO date-time string of a body denotes
ParseDate(s) == IF s = "2026-02-01T09:00:00Z" THEN 101 ELSE 102

(* ------------------------- request bodies ------------------------------ *)
\* a JSON body is a record over all the keys a request can carry; a key that
\* is absent from the body holds UNDEF, as `body[key]` does in the handler
BodyFields == {"status", "priority", "scheduledDate", "technicianId", "propertyId",
               "notes", "canceledReason", "canceledAt", "completedAt",
               "supervisorId", "active", "name", "phone", "truckId", "role", "region",
               "includeCanceled"}

EmptyBody == [f \in BodyFields |-> UNDEF]

Present(b) == {f \in BodyFields : b[f] # UNDEF}

\* the status key of a PATCH body: absent, or one of the values the route's
\* JSON schema lets through
StatusInputs == {UNDEF, "pending", "in_progress", "completed", "cancelled", "canceled"}

\* the other keys of a PATCH body: none, one key, or two keys
ExtraInputs ==
  {EmptyBody,
   [EmptyBody EXCEPT !.notes = "note"],
   [EmptyBody EXCEPT !.canceledReason = "rescheduled"],
   [EmptyBody EXCEPT !.canceledReason = ""],
   [EmptyBody EXCEPT !.priority = "high"],
   [EmptyBody EXCEPT !.scheduledDate = "2026-03-01T09:00:00Z"],
   [EmptyBody EXCEPT !.technicianId = "T2"],
   [EmptyBody EXCEPT !.technicianId = GhostUser],
   [EmptyBody EXCEPT !.propertyId = "P2"],
   [EmptyBody EXCEPT !.completedAt = "2026-03-01T09:00:00Z"],
   [EmptyBody EXCEPT !.canceledAt = "2026-03-01T09:00:00Z"],
   [EmptyBody EXCEPT !.canceledAt = "2026-03-01T09:00:00Z", !.priority = "high"],
   [EmptyBody EXCEPT !.propertyId = "P2", !.technicianId = "T2"],
   [EmptyBody EXCEPT !.notes = "note", !.priority = "high"]}

PatchBodies == {[e EXCEPT !.status = s] : e \in ExtraInputs, s \in StatusInputs}

\* JavaScript truthiness of an optional string
Truthy(x) == x # UNDEF /\ x # ""

(* ------------------------------ state ---------------------------------- *)
VARIABLES
  assignments,   \* the Assignment table: a sequence of rows, the id is the index
  supervisorId,  \* TechnicianProfile.supervisorId of every user (NULL: unassigned)
  userRole,      \* User.role of every user
  profiles,      \* the other columns of every user's TechnicianProfile
  now,           \* the clock read by `new Date()` and `Date.now()`
  last,          \* the last request served and its response
  inflight,      \* the requests whose handler is suspended at an `await`
  limiter,       \* the config a rate limiter was created with
  store,         \* the limiter's Map from key to entry
  calls          \* number of check() calls made on the limiter

vars == <<assignments, supervisorId, userRole, profiles, now, last,
          inflight, limiter, store, calls>>

NoRequest ==
  [op |-> "none", user |-> "AD", id |-> 0, body |-> EmptyBody,
   code |-> 0, msg |-> "", field |-> "", ret |-> {}]

Response(op, user, id, body, code, msg, field, ret) ==
  [op |-> op, user |-> user, id |-> id, body |-> body,
   code |-> code, msg |-> msg, field |-> field, ret |-> ret]

\* the two requests that can be in flight together
Requests == {1, 2}

\* a slot no request occupies; `existing` is the record the handler's
\* findUnique returned (no row before the read), `techSup` the supervisorId
\* of the profile that came with it
NoInflight ==
  [pc |-> "none", op |-> "none", user |-> "AD", id |-> 0, body |-> EmptyBody,
   existing |-> <<>>, techSup |-> NULL, code |-> 0, msg |-> "", ret |-> {}, at |-> NullTime]

\* utils/rateLimiter.ts: the limiters the module creates
TEN_MINUTES == 10 * 60 * 1000

estimateGenerateLimiter ==
  [name |-> "estimate-generate-user", windowMs |-> TEN_MINUTES, maxRequests |-> 10]
estimateGenerateIpLimiter ==
  [name |-> "estimate-generate-ip", windowMs |-> TEN_MINUTES, maxRequests |-> 30]
estimateSelectionLimiter ==
  [name |-> "estimate-selection", windowMs |-> TEN_MINUTES, maxRequests |-> 60]
productSearchLimiter ==
  [name |-> "product-search", windowMs |-> TEN_MINUTES, maxRequests |-> 120]

\* the keys check() is called with: the caller's user id
LimiterKeys == {"T1", "T2"}

\* store.get(key) of a key the Map does not hold
NoEntry == [count |-> 0, resetAt |-> 0]

\* the process after start-up: no request in flight, the limiter's Map empty
FreshProcess ==
  /\ inflight = [q \in Requests |-> NoInflight]
  /\ limiter = productSearchLimiter
  /\ store = [k \in LimiterKeys |-> NoEntry]
  /\ calls = 0

\* the TechnicianProfile prisma/seed.ts creates with every user; a JSON
\* boolean is written as its literal
SeedProfile(u) ==
  [name |-> "Seed User", phone |-> "555-0001",
   truckId |-> IF u \in Techs \cup {"R1"} THEN "TRUCK-001" ELSE NULL,
   active |-> "true",
   region |-> IF u \in {"T1", "S1"} THEN "north" ELSE IF u \in {"T2", "S2"} THEN "mid" ELSE NULL]

Init ==
  /\ assignments = <<>>
  /\ supervisorId = [u \in Users |-> IF u = "T1" THEN "S1" ELSE IF u = "T2" THEN "S2" ELSE NULL]
  /\ userRole = [u \in Users |-> role(u)]
  /\ profiles = [u \in Users |-> SeedProfile(u)]
  /\ now = 1
  /\ last = NoRequest
  /\ FreshProcess

(* --------------------------- helpers ----------------------------------- *)
Min(S) == CHOOSE x \in S : \A y \in S : x <= y

\* a row of the Assignment table as Prisma creates it (column defaults of the migrations)
NewAssignment(propertyId, technicianId, scheduledDate, priority, notes, t) ==
  [propertyId |-> propertyId, technicianId |-> technicianId, status |-> "pending",
   priority |-> priority, scheduledDate |-> scheduledDate,
   completedAt |-> NullTime, canceledAt |-> NullTime, canceledReason |-> NULL,
   notes |-> notes, updatedAt |-> t]

\* `updateData`: the columns a handler hands to prisma.assignment.update;
\* UNDEF / KeepTime mark a column that is not in the object
KeepTime == -1
NoUpdate ==
  [status |-> UNDEF, priority |-> UNDEF, scheduledDate |-> KeepTime, technicianId |-> UNDEF,
   notes |-> UNDEF, canceledReason |-> UNDEF, canceledAt |-> KeepTime, completedAt |-> KeepTime]

\* prisma.assignment.update({where: {id}, data}): listed columns are overwritten,
\* the @updatedAt column is stamped
prismaUpdate(row, data, t) ==
  [propertyId |-> row.propertyId,
   technicianId |-> IF data.technicianId = UNDEF THEN row.technicianId ELSE data.technicianId,
   status |-> IF data.status = UNDEF THEN row.status ELSE data.status,
   priority |-> IF data.priority = UNDEF THEN row.priority ELSE data.priority,
   scheduledDate |-> IF data.scheduledDate = KeepTime THEN row.scheduledDate ELSE data.scheduledDate,
   completedAt |-> IF data.completedAt = KeepTime THEN row.completedAt ELSE data.completedAt,
   canceledAt |-> IF data.canceledAt = KeepTime THEN row.canceledAt ELSE data.canceledAt,
   canceledReason |-> IF data.canceledReason = UNDEF THEN row.canceledReason ELSE data.canceledReason,
   notes |-> IF data.notes = UNDEF THEN row.notes ELSE data.notes,
   updatedAt |-> t]

\* what a handler decides: the response and the table after it
Err(code, msg, field) ==
  [code |-> code, msg |-> msg, field |-> field, table |-> assignments, ret |-> {}]
Returned(row) ==
  [code |-> 200, msg |-> "", field |-> "", table |-> assignments, ret |-> {row}]
Updated(id, row) ==
  [code |-> 200, msg |-> "", field |-> "", table |-> [assignments EXCEPT ![id] = row],
   ret |-> {row}]

(* -------------------- routes/assignments.ts ---------------------------- *)
\* normalizeStatus that hands the spelling through
normalizeStatus_AsIs(status) == status

normalizeStatus(status) == IF status = "canceled" THEN "cancelled" ELSE status

normalizeRequestBody(body) ==
  IF body.status # UNDEF THEN [body EXCEPT !.status = normalizeStatus(body.status)] ELSE body

\* zod objects strip the keys they do not declare; success is false when a
\* declared key carries a value outside its type
supervisorUpdateSchema(b) ==
  [success |-> b.status \in {UNDEF, "cancelled"},
   data |-> [status |-> b.status, priority |-> b.priority, scheduledDate |-> b.scheduledDate,
             notes |-> b.notes, canceledReason |-> b.canceledReason]]

adminUpdateSchema(b) ==
  [success |-> b.status \in {UNDEF} \cup AssignmentStatus,
   data |-> [status |-> b.status, priority |-> b.priority, scheduledDate |-> b.scheduledDate,
             technicianId |-> b.technicianId, notes |-> b.notes,
             canceledReason |-> b.canceledReason]]

techUpdateSchema(b) ==
  [success |-> b.status \in {UNDEF, "pending", "in_progress", "completed"},
   data |-> [status |-> b.status, notes |-> b.notes]]

forbiddenFields ==
  <<"priority", "scheduledDate", "technicianId", "propertyId", "canceledReason", "canceledAt">>

\* forbiddenFieldsSup without completedAt
forbiddenFieldsSup_NoCompletedAt == <<"technicianId", "propertyId">>

forbiddenFieldsSup == <<"technicianId", "propertyId", "completedAt">>

\* for (const field of fields) if (body[field] !== undefined) return forbidden(field)
FirstForbidden(fields, body) ==
  LET hit == {i \in 1..Len(fields) : body[fields[i]] # UNDEF}
  IN IF hit = {} THEN UNDEF ELSE fields[Min(hit)]

\* validTransitions with a shortcut pending -> completed
validTransitions_Skip(currentStatus) ==
  CASE currentStatus = "pending" -> {"in_progress", "completed"}
    [] currentStatus = "in_progress" -> {"completed"}
    [] currentStatus = "completed" -> {}
    [] currentStatus = "cancelled" -> {}

\* validTransitions that lets a cancelled row be reopened
validTransitions_Reopen(currentStatus) ==
  CASE currentStatus = "pending" -> {"in_progress"}
    [] currentStatus = "in_progress" -> {"completed"}
    [] currentStatus = "completed" -> {}
    [] currentStatus = "cancelled" -> {"pending"}

validTransitions(currentStatus) ==
  CASE currentStatus = "pending" -> {"in_progress"}
    [] currentStatus = "in_progress" -> {"completed"}
    [] currentStatus = "completed" -> {}
    [] currentStatus = "cancelled" -> {}

techUpdateData(data, t) ==
  [NoUpdate EXCEPT
     !.status = IF Truthy(data.status) THEN data.status ELSE UNDEF,
     !.completedAt = IF Truthy(data.status) /\ data.status = "completed" THEN t ELSE KeepTime,
     !.notes = data.notes]

\* techPatch without the cancel check that precedes the schema
techPatch_NoCancelCheck(id, existing, normalizedBody, t) ==
  LET result == techUpdateSchema(normalizedBody)
      field == FirstForbidden(forbiddenFields, normalizedBody)
  IN IF ~result.success
       THEN Err(400, "Invalid request body", "")
     ELSE IF field # UNDEF
       THEN Err(403, "Technicians cannot update the field", field)
     ELSE IF Truthy(result.data.status)
             /\ result.data.status \notin validTransitions(existing.status)
       THEN Err(400, "Invalid status transition", "")
     ELSE Updated(id, prismaUpdate(existing, techUpdateData(result.data, t), t))

techPatch(id, existing, normalizedBody, t) ==
  LET result == techUpdateSchema(normalizedBody)
      field == FirstForbidden(forbiddenFields, normalizedBody)
  IN IF normalizedBody.status = "cancelled"
       THEN Err(403, "Technicians cannot cancel assignments", "")
     ELSE IF ~result.success
       THEN Err(400, "Invalid request body", "")
     ELSE IF field # UNDEF
       THEN Err(403, "Technicians cannot update the field", field)
     ELSE IF Truthy(result.data.status)
             /\ result.data.status \notin validTransitions(existing.status)
       THEN Err(400, "Invalid status transition", "")
     ELSE Updated(id, prismaUpdate(existing, techUpdateData(result.data, t), t))

\* cancelUpdateData that leaves the stored completedAt in place
cancelUpdateData_KeepCompleted(data, t) ==
  [NoUpdate EXCEPT
     !.status = "cancelled",
     !.canceledAt = t,
     !.canceledReason = IF Truthy(data.canceledReason) THEN data.canceledReason ELSE UNDEF]

cancelUpdateData(data, t) ==
  [NoUpdate EXCEPT
     !.status = "cancelled",
     !.canceledAt = t,
     !.completedAt = NullTime,
     !.canceledReason = IF Truthy(data.canceledReason) THEN data.canceledReason ELSE UNDEF]

adminUpdateData(existing, data, t) ==
  IF data.status = "cancelled" THEN cancelUpdateData(data, t)
  ELSE [NoUpdate EXCEPT
          !.status = IF Truthy(data.status) THEN data.status ELSE UNDEF,
          !.priority = IF Truthy(data.priority) THEN data.priority ELSE UNDEF,
          !.scheduledDate = IF Truthy(data.scheduledDate)
                              THEN ParseDate(data.scheduledDate) ELSE KeepTime,
          !.technicianId = IF Truthy(data.technicianId) THEN data.technicianId ELSE UNDEF,
          !.notes = data.notes,
          !.completedAt = IF data.status = "completed" /\ existing.completedAt = NullTime
                            THEN t ELSE KeepTime]

adminPatch(id, existing, normalizedBody, t) ==
  LET result == adminUpdateSchema(normalizedBody)
  IN IF ~result.success
       THEN Err(400, "Invalid request body", "")
     ELSE IF Truthy(result.data.technicianId) /\ result.data.technicianId \notin Users
       THEN Err(404, "Technician not found", "")
     ELSE IF result.data.status = "cancelled" /\ existing.status = "cancelled"
       THEN Returned(existing)
     ELSE Updated(id, prismaUpdate(existing, adminUpdateData(existing, result.data, t), t))

supervisorUpdateData(data, t) ==
  IF data.status = "cancelled" THEN cancelUpdateData(data, t)
  ELSE [NoUpdate EXCEPT
          !.priority = IF Truthy(data.priority) THEN data.priority ELSE UNDEF,
          !.scheduledDate = IF Truthy(data.scheduledDate)
                              THEN ParseDate(data.scheduledDate) ELSE KeepTime,
          !.notes = data.notes]

\* supervisorPatch without the early return on an already cancelled row
supervisorPatch_Restamp(id, existing, normalizedBody, t) ==
  LET result == supervisorUpdateSchema(normalizedBody)
      field == FirstForbidden(forbiddenFieldsSup, normalizedBody)
  IN IF ~result.success
       THEN Err(400, "Invalid request body", "")
     ELSE IF field # UNDEF
       THEN Err(403, "Supervisors cannot update the field", field)
     ELSE Updated(id, prismaUpdate(existing, supervisorUpdateData(result.data, t), t))

supervisorPatch(id, existing, normalizedBody, t) ==
  LET result == supervisorUpdateSchema(normalizedBody)
      field == FirstForbidden(forbiddenFieldsSup, normalizedBody)
  IN IF ~result.success
       THEN Err(400, "Invalid request body", "")
     ELSE IF field # UNDEF
       THEN Err(403, "Supervisors cannot update the field", field)
     ELSE IF result.data.status = "cancelled" /\ existing.status = "cancelled"
       THEN Returned(existing)
     ELSE Updated(id, prismaUpdate(existing, supervisorUpdateData(result.data, t), t))

\* patchAssignment without the supervisor's team check
patchAssignment_NoTeamCheck(user, id, body, t) ==
  IF id \notin DOMAIN assignments THEN Err(404, "Assignment not found", "")
  ELSE
    LET existing == assignments[id]
        normalizedBody == normalizeRequestBody(body)
    IN IF role(user) = "tech" /\ existing.technicianId # user
         THEN Err(403, "You can only update your own assignments", "")
       ELSE IF role(user) = "tech" THEN techPatch(id, existing, normalizedBody, t)
       ELSE IF role(user) \in {"admin", "repair"} THEN adminPatch(id, existing, normalizedBody, t)
       ELSE supervisorPatch(id, existing, normalizedBody, t)

\* PATCH /api/assignments/:id
patchAssignment(user, id, body, t) ==
  IF id \notin DOMAIN assignments THEN Err(404, "Assignment not found", "")
  ELSE
    LET existing == assignments[id]
        normalizedBody == normalizeRequestBody(body)
    IN IF role(user) = "tech" /\ existing.technicianId # user
         THEN Err(403, "You can only update your own assignments", "")
       ELSE IF role(user) = "supervisor" /\ supervisorId[existing.technicianId] # user
         THEN Err(403, "You can only update your team's assignments", "")
       ELSE IF role(user) = "tech" THEN techPatch(id, existing, normalizedBody, t)
       ELSE IF role(user) \in {"admin", "repair"} THEN adminPatch(id, existing, normalizedBody, t)
       ELSE supervisorPatch(id, existing, normalizedBody, t)

\* getAssignment that holds a repair caller to the own rows, as a tech
getAssignment_RepairAsTech(user, id) ==
  IF id \notin DOMAIN assignments THEN Err(404, "Assignment not found", "")
  ELSE
    LET assignment == assignments[id]
    IN IF role(user) \in {"tech", "repair"} /\ assignment.technicianId # user
         THEN Err(403, "You can only view your own assignments", "")
       ELSE IF role(user) = "supervisor" /\ supervisorId[assignment.technicianId] # user
         THEN Err(403, "You can only view your team's assignments", "")
       ELSE Returned(assignment)

\* GET /api/assignments/:id
getAssignment(user, id) ==
  IF id \notin DOMAIN assignments THEN Err(404, "Assignment not found", "")
  ELSE
    LET assignment == assignments[id]
    IN IF role(user) = "tech" /\ assignment.technicianId # user
         THEN Err(403, "You can only view your own assignments", "")
       ELSE IF role(user) = "supervisor" /\ supervisorId[assignment.technicianId] # user
         THEN Err(403, "You can only view your team's assignments", "")
       ELSE Returned(assignment)

\* fastify.requireRole(roles), the preHandler of POST /api/assignments
requireRole(roles, user) == role(user) \in roles

\* createAssignment without the supervisor's team check
createAssignment_NoTeamCheck(user, body, t) ==
  IF ~requireRole({"supervisor", "repair", "admin"}, user)
    THEN Err(403, "Access denied", "")
  ELSE IF body.propertyId \notin Properties
    THEN Err(404, "Property not found", "")
  ELSE IF body.technicianId \notin Users
    THEN Err(404, "Technician not found", "")
  ELSE
    LET row == NewAssignment(body.propertyId, body.technicianId, ParseDate(body.scheduledDate),
                             IF Truthy(body.priority) THEN body.priority ELSE "med",
                             IF body.notes = UNDEF THEN NULL ELSE body.notes, t)
    IN [code |-> 201, msg |-> "", field |-> "", table |-> Append(assignments, row),
        ret |-> {row}]

\* POST /api/assignments
createAssignment(user, body, t) ==
  IF ~requireRole({"supervisor", "repair", "admin"}, user)
    THEN Err(403, "Access denied", "")
  ELSE IF body.propertyId \notin Properties
    THEN Err(404, "Property not found", "")
  ELSE IF body.technicianId \notin Users
    THEN Err(404, "Technician not found", "")
  ELSE IF role(user) = "supervisor" /\ supervisorId[body.technicianId] # user
    THEN Err(403, "You can only create assignments for your team members", "")
  ELSE
    LET row == NewAssignment(body.propertyId, body.technicianId, ParseDate(body.scheduledDate),
                             IF Truthy(body.priority) THEN body.priority ELSE "med",
                             IF body.notes = UNDEF THEN NULL ELSE body.notes, t)
    IN [code |-> 201, msg |-> "", field |-> "", table |-> Append(assignments, row),
        ret |-> {row}]

\* the answer of a read handler that returns a collection
Listed(ret) ==
  [code |-> 200, msg |-> "", field |-> "", table |-> assignments, ret |-> ret]

\* listAssignments whose technicianId filter replaces the supervisor's team filter
listAssignments_QueryWins(user, query) ==
  LET includeCanceled == query.includeCanceled = "true"
      where(row) ==
        /\ IF Truthy(query.status) THEN row.status = normalizeStatus(query.status)
           ELSE includeCanceled \/ row.status # "cancelled"
        /\ IF role(user) = "tech" THEN row.technicianId = user
           ELSE IF role(user) = "supervisor" /\ ~Truthy(query.technicianId)
             THEN supervisorId[row.technicianId] = user
           ELSE Truthy(query.technicianId) => row.technicianId = query.technicianId
        /\ Truthy(query.propertyId) => row.propertyId = query.propertyId
        /\ Truthy(query.priority) => row.priority = query.priority
  IN Listed({assignments[i] : i \in {j \in DOMAIN assignments : where(assignments[j])}})

\* GET /api/assignments: the rows prisma.assignment.findMany({where}) returns
listAssignments(user, query) ==
  LET includeCanceled == query.includeCanceled = "true"
      where(row) ==
        /\ IF Truthy(query.status) THEN row.status = normalizeStatus(query.status)
           ELSE includeCanceled \/ row.status # "cancelled"
        /\ IF role(user) = "tech" THEN row.technicianId = user
           ELSE IF role(user) = "supervisor"
             THEN /\ supervisorId[row.technicianId] = user
                  /\ Truthy(query.technicianId) => row.technicianId = query.technicianId
           ELSE Truthy(query.technicianId) => row.technicianId = query.technicianId
        /\ Truthy(query.propertyId) => row.propertyId = query.propertyId
        /\ Truthy(query.priority) => row.priority = query.priority
  IN Listed({assignments[i] : i \in {j \in DOMAIN assignments : where(assignments[j])}})

\* GET /api/assignments/created
listCreated(user, query) ==
  LET includeCanceled == query.includeCanceled = "true"
      where(row) ==
        /\ includeCanceled \/ row.status # "cancelled"
        /\ role(user) = "supervisor" => supervisorId[row.technicianId] = user
  IN IF ~requireRole({"supervisor", "admin"}, user) THEN Err(403, "Access denied", "")
     ELSE Listed({assignments[i] : i \in {j \in DOMAIN assignments : where(assignments[j])}})

(* -------------------- routes/properties.ts ----------------------------- *)
\* Property.region of the seeded properties
propertyRegion(p) == IF p = "P1" THEN "north" ELSE "mid"

\* GET /api/properties (first page, no updatedSince): the ids of the items
listProperties(user) ==
  IF role(user) = "tech" THEN
    Listed({assignments[i].propertyId :
              i \in {j \in DOMAIN assignments : assignments[j].technicianId = user}})
  ELSE IF role(user) = "supervisor" THEN
    LET supervisorProfile == profiles[user]
        assignedPropertyIds ==
          {assignments[i].propertyId :
             i \in {j \in DOMAIN assignments : supervisorId[assignments[j].technicianId] = user}}
    IN IF assignedPropertyIds # {} /\ supervisorProfile.region # NULL
         THEN Listed({p \in Properties :
                        p \in assignedPropertyIds \/ propertyRegion(p) = supervisorProfile.region})
       ELSE IF assignedPropertyIds # {}
         THEN Listed({p \in Properties : p \in assignedPropertyIds})
       ELSE IF supervisorProfile.region # NULL
         THEN Listed({p \in Properties : propertyRegion(p) = supervisorProfile.region})
       ELSE Listed({})
  ELSE Listed(Properties)

\* getProperty that admits a supervisor by team assignment only
getProperty_NoRegion(user, id) ==
  IF id \notin Properties THEN Err(404, "Property not found", "")
  ELSE
    LET rows == {assignments[i] : i \in {j \in DOMAIN assignments : assignments[j].propertyId = id}}
        hasAssignment == \E a \in rows : a.technicianId = user
        hasTeamAssignment == \E a \in rows : supervisorId[a.technicianId] = user
    IN IF role(user) = "tech" /\ ~hasAssignment THEN Err(404, "Property not found", "")
       ELSE IF role(user) = "supervisor" /\ ~hasTeamAssignment
         THEN Err(404, "Property not found", "")
       ELSE Listed({id})

\* GET /api/properties/:id
getProperty(user, id) ==
  IF id \notin Properties THEN Err(404, "Property not found", "")
  ELSE
    LET rows == {assignments[i] : i \in {j \in DOMAIN assignments : assignments[j].propertyId = id}}
        hasAssignment == \E a \in rows : a.technicianId = user
        hasTeamAssignment == \E a \in rows : supervisorId[a.technicianId] = user
        matchesRegion == profiles[user].region # NULL /\ propertyRegion(id) = profiles[user].region
    IN IF role(user) = "tech" /\ ~hasAssignment THEN Err(404, "Property not found", "")
       ELSE IF role(user) = "supervisor" /\ ~hasTeamAssignment /\ ~matchesRegion
         THEN Err(404, "Property not found", "")
       ELSE Listed({id})

\* POST /api/properties/:id/complete; `id` is the body's assignmentId and
\* body.propertyId the :id of the path
completeProperty(user, id, body, t) ==
  IF body.propertyId \notin Properties THEN Err(404, "Property not found", "")
  ELSE IF id \notin DOMAIN assignments
    \* prisma.assignment.update throws on a missing row: the reply is a 500
    THEN Err(500, "Internal server error", "")
  ELSE
    LET data == [NoUpdate EXCEPT
                   !.status = "completed",
                   !.completedAt = IF Truthy(body.completedAt)
                                     THEN ParseDate(body.completedAt) ELSE t,
                   !.notes = body.notes]
    IN Updated(id, prismaUpdate(assignments[id], data, t))

(* -------------------- routes/technicians.ts ---------------------------- *)
\* what a profile handler decides: the response and the tables after it
TeamErr(code, msg) ==
  [code |-> code, msg |-> msg, sup |-> supervisorId, roles |-> userRole, prof |-> profiles]
TeamOk(sup, roles, prof) ==
  [code |-> 200, msg |-> "", sup |-> sup, roles |-> roles, prof |-> prof]

patchTechnicianSchema(b) ==
  [success |-> b.name # "",
   data |-> [supervisorId |-> b.supervisorId, active |-> b.active, name |-> b.name,
             phone |-> b.phone, truckId |-> b.truckId]]

\* prisma.technicianProfile.update({where, data}): a key that is undefined
\* leaves its column, null is written to it
profileUpdate(id, data) ==
  TeamOk([supervisorId EXCEPT ![id] = IF data.supervisorId = UNDEF THEN @ ELSE data.supervisorId],
         userRole,
         [profiles EXCEPT
            ![id].active = IF data.active = UNDEF THEN @ ELSE data.active,
            ![id].name = IF data.name = UNDEF THEN @ ELSE data.name,
            ![id].phone = IF data.phone = UNDEF THEN @ ELSE data.phone,
            ![id].truckId = IF data.truckId = UNDEF THEN @ ELSE data.truckId])

\* patchTechnician without the check that keeps an own technician on the team
patchTechnician_Reassign(user, id, body) ==
  LET result == patchTechnicianSchema(body)
      updateData == result.data
  IN IF ~result.success THEN TeamErr(400, "Invalid request body")
     ELSE IF id \notin Users THEN TeamErr(404, "Technician not found")
     ELSE IF role(user) = "tech" THEN
       IF id # user
         THEN TeamErr(403, "You can only update your own profile")
       ELSE IF updateData.supervisorId # UNDEF \/ updateData.active # UNDEF
         THEN TeamErr(403, "Technicians cannot update supervisorId or active status")
       ELSE profileUpdate(id, [updateData EXCEPT !.supervisorId = UNDEF, !.active = UNDEF])
     ELSE IF role(user) = "supervisor" THEN
       LET isOwnTech == supervisorId[id] = user
           isUnassigned == supervisorId[id] = NULL
       IN IF ~isOwnTech /\ ~isUnassigned
            THEN TeamErr(403, "You can only update technicians assigned to you or unassigned technicians")
          ELSE IF isUnassigned /\ updateData.supervisorId # UNDEF
                  /\ updateData.supervisorId # user
            THEN TeamErr(403, "You can only assign unassigned technicians to yourself")
          ELSE profileUpdate(id, updateData)
     ELSE profileUpdate(id, updateData)

\* patchTechnician whose tech branch writes the profile before it refuses
\* supervisorId and active
patchTechnician_WriteFirst(user, id, body) ==
  LET result == patchTechnicianSchema(body)
      updateData == result.data
  IN IF ~result.success THEN TeamErr(400, "Invalid request body")
     ELSE IF id \notin Users THEN TeamErr(404, "Technician not found")
     ELSE IF role(user) = "tech" THEN
       IF id # user
         THEN TeamErr(403, "You can only update your own profile")
       ELSE IF updateData.supervisorId # UNDEF \/ updateData.active # UNDEF
         THEN [profileUpdate(id, [updateData EXCEPT !.supervisorId = UNDEF])
                 EXCEPT !.code = 403,
                        !.msg = "Technicians cannot update supervisorId or active status"]
       ELSE profileUpdate(id, [updateData EXCEPT !.supervisorId = UNDEF, !.active = UNDEF])
     ELSE IF role(user) = "supervisor" THEN
       LET isOwnTech == supervisorId[id] = user
           isUnassigned == supervisorId[id] = NULL
       IN IF ~isOwnTech /\ ~isUnassigned
            THEN TeamErr(403, "You can only update technicians assigned to you or unassigned technicians")
          ELSE IF isUnassigned /\ updateData.supervisorId # UNDEF
                  /\ updateData.supervisorId # user
            THEN TeamErr(403, "You can only assign unassigned technicians to yourself")
          ELSE IF isOwnTech /\ updateData.supervisorId # UNDEF
                  /\ updateData.supervisorId # NULL /\ updateData.supervisorId # user
            THEN TeamErr(403, "You cannot assign your technicians to another supervisor")
          ELSE profileUpdate(id, updateData)
     ELSE profileUpdate(id, updateData)

\* PATCH /api/technicians/:id
patchTechnician(user, id, body) ==
  LET result == patchTechnicianSchema(body)
      updateData == result.data
  IN IF ~result.success THEN TeamErr(400, "Invalid request body")
     ELSE IF id \notin Users THEN TeamErr(404, "Technician not found")
     ELSE IF role(user) = "tech" THEN
       IF id # user
         THEN TeamErr(403, "You can only update your own profile")
       ELSE IF updateData.supervisorId # UNDEF \/ updateData.active # UNDEF
         THEN TeamErr(403, "Technicians cannot update supervisorId or active status")
       ELSE profileUpdate(id, [updateData EXCEPT !.supervisorId = UNDEF, !.active = UNDEF])
     ELSE IF role(user) = "supervisor" THEN
       LET isOwnTech == supervisorId[id] = user
           isUnassigned == supervisorId[id] = NULL
       IN IF ~isOwnTech /\ ~isUnassigned
            THEN TeamErr(403, "You can only update technicians assigned to you or unassigned technicians")
          ELSE IF isUnassigned /\ updateData.supervisorId # UNDEF
                  /\ updateData.supervisorId # user
            THEN TeamErr(403, "You can only assign unassigned technicians to yourself")
          ELSE IF isOwnTech /\ updateData.supervisorId # UNDEF
                  /\ updateData.supervisorId # NULL /\ updateData.supervisorId # user
            THEN TeamErr(403, "You cannot assign your technicians to another supervisor")
          ELSE profileUpdate(id, updateData)
     ELSE profileUpdate(id, updateData)

(* ------------------------ routes/users.ts ------------------------------ *)
roles == {"tech", "supervisor", "repair", "admin"}
regions == {"north", "mid", "south"}

updateUserSchema(b) ==
  [success |-> b.role \in {UNDEF} \cup roles /\ b.region \in {UNDEF, NULL} \cup regions,
   data |-> [role |-> b.role, phone |-> b.phone, truckId |-> b.truckId, region |-> b.region,
             supervisorId |-> b.supervisorId, active |-> b.active]]

\* PUT /api/users/:id
updateUser(user, id, body) ==
  LET parsed == updateUserSchema([body EXCEPT !.role = IF @ = "technician" THEN "tech" ELSE @])
      data == parsed.data
  IN IF ~requireRole({"admin"}, user) THEN TeamErr(403, "Access denied")
     ELSE IF ~parsed.success THEN TeamErr(400, "VALIDATION_ERROR")
     ELSE IF id \notin Users THEN TeamErr(404, "User not found")
     ELSE TeamOk([supervisorId EXCEPT ![id] = IF data.supervisorId = UNDEF THEN @ ELSE data.supervisorId],
                 [userRole EXCEPT ![id] = IF Truthy(data.role) THEN data.role ELSE @],
                 [profiles EXCEPT
                    ![id].phone = IF data.phone = UNDEF THEN @ ELSE data.phone,
                    ![id].truckId = IF data.truckId = UNDEF THEN @ ELSE data.truckId,
                    ![id].region = IF data.region = UNDEF THEN @ ELSE data.region,
                    ![id].active = IF data.active = UNDEF THEN @ ELSE data.active])

(* ----------------------------- actions --------------------------------- *)
RequestIds == 1..(MaxAssignments + 1)

CreateBodies ==
  {[EmptyBody EXCEPT !.propertyId = p, !.technicianId = u,
                     !.scheduledDate = "2026-02-01T09:00:00Z", !.priority = pr] :
     p \in {"P1", GhostProperty}, u \in {"T1", "T2", GhostUser}, pr \in {UNDEF, "low"}}
  \cup {[EmptyBody EXCEPT !.propertyId = "P1", !.technicianId = "S1",
                          !.scheduledDate = "2026-02-01T09:00:00Z"]}

CompleteBodies ==
  {[EmptyBody EXCEPT !.propertyId = p, !.completedAt = c, !.notes = n] :
     p \in {"P1", GhostProperty}, c \in {UNDEF, "2026-03-01T09:00:00Z"}, n \in {UNDEF, "note"}}

\* the server takes the next request when the previous reply has been sent
Idle == last.op = "none" /\ now <= MaxTime

Serve(op, user, id, body, r) ==
  /\ assignments' = r.table
  /\ last' = Response(op, user, id, body, r.code, r.msg, r.field, r.ret)
  /\ now' = now + 1
  /\ UNCHANGED <<supervisorId, userRole, profiles, inflight, limiter, store, calls>>

CreateAssignment ==
  \E user \in Users, body \in CreateBodies :
    LET r == createAssignment(user, body, now)
    IN /\ Idle
       /\ r.code = 201 => Len(assignments) < MaxAssignments
       /\ Serve("POST", user, 0, body, r)

PatchAssignment ==
  \E user \in Users, id \in RequestIds, body \in PatchBodies :
    /\ Idle
    /\ Serve("PATCH", user, id, body, patchAssignment(user, id, body, now))

GetAssignment ==
  \E user \in Users, id \in RequestIds :
    /\ Idle
    /\ Serve("GET", user, id, EmptyBody, getAssignment(user, id))

CompleteProperty ==
  \E user \in Users, id \in RequestIds, body \in CompleteBodies :
    /\ Idle
    /\ Serve("COMPLETE", user, id, body, completeProperty(user, id, body, now))

\* the reply of the request just served goes out
SendReply ==
  /\ last.op # "none"
  /\ last' = NoRequest
  /\ UNCHANGED <<assignments, supervisorId, userRole, profiles, now,
                 inflight, limiter, store, calls>>

Next ==
  CreateAssignment \/ PatchAssignment \/ GetAssignment \/ CompleteProperty \/ SendReply

Spec == Init /\ [][Next]_vars

\* the database as prisma/seed.ts leaves it: the sample assignment of the
\* technician on the first property, pending
InitSeeded ==
  /\ assignments = <<NewAssignment("P1", "T1", 101, "med", "Regular maintenance visit", 1)>>
  /\ supervisorId = [u \in Users |-> IF u = "T1" THEN "S1" ELSE IF u = "T2" THEN "S2" ELSE NULL]
  /\ userRole = [u \in Users |-> role(u)]
  /\ profiles = [u \in Users |-> SeedProfile(u)]
  /\ now = 1
  /\ last = NoRequest
  /\ FreshProcess

SpecSeeded == InitSeeded /\ [][Next]_vars

(* ---------------- profile and read requests on stored records ---------- *)
\* the keys of a PATCH /api/technicians/:id body
TechnicianBodies ==
  {[e EXCEPT !.supervisorId = sup] :
     e \in {EmptyBody, [EmptyBody EXCEPT !.active = "false"], [EmptyBody EXCEPT !.name = "Pat Lee"]},
     sup \in {UNDEF, NULL, "S1", "S2", "T2", GhostUser}}
  \cup {[EmptyBody EXCEPT !.phone = "555-0199"], [EmptyBody EXCEPT !.truckId = "TRUCK-9"],
        [EmptyBody EXCEPT !.active = "false", !.name = "Pat Lee"],
        [EmptyBody EXCEPT !.name = ""]}

\* the keys of a PUT /api/users/:id body
UserBodies ==
  {[EmptyBody EXCEPT !.role = "supervisor"], [EmptyBody EXCEPT !.role = "tech"],
   [EmptyBody EXCEPT !.role = "technician"], [EmptyBody EXCEPT !.role = "manager"],
   [EmptyBody EXCEPT !.supervisorId = "T2"], [EmptyBody EXCEPT !.supervisorId = NULL],
   [EmptyBody EXCEPT !.region = NULL], [EmptyBody EXCEPT !.active = "false"]}

\* the query string of GET /api/assignments
ListQueries ==
  {[EmptyBody EXCEPT !.technicianId = u, !.status = st, !.includeCanceled = ic] :
     u \in {UNDEF, "T1", "T2"}, st \in {UNDEF, "canceled"}, ic \in {UNDEF, "true"}}
  \cup {[EmptyBody EXCEPT !.propertyId = "P2"], [EmptyBody EXCEPT !.priority = "high"]}

ServeTeam(op, user, id, body, r) ==
  /\ supervisorId' = r.sup
  /\ userRole' = r.roles
  /\ profiles' = r.prof
  /\ last' = Response(op, user, id, body, r.code, r.msg, "", {})
  /\ now' = now + 1
  /\ UNCHANGED <<assignments, inflight, limiter, store, calls>>

PatchTechnician ==
  \E user \in Users, id \in {"T1", "T2", "R1", "S2", GhostUser}, body \in TechnicianBodies :
    /\ Idle
    /\ ServeTeam("PATCH_TECHNICIAN", user, id, body, patchTechnician(user, id, body))

UpdateUser ==
  \E user \in Users, id \in {"T1", "S1", GhostUser}, body \in UserBodies :
    /\ Idle
    /\ ServeTeam("PUT_USER", user, id, body, updateUser(user, id, body))

ListAssignments ==
  \E user \in Users, query \in ListQueries :
    /\ Idle
    /\ Serve("LIST", user, 0, query, listAssignments(user, query))

ListCreated ==
  \E user \in Users, ic \in {UNDEF, "true"} :
    LET query == [EmptyBody EXCEPT !.includeCanceled = ic]
    IN /\ Idle
       /\ Serve("LIST_CREATED", user, 0, query, listCreated(user, query))

ListProperties ==
  \E user \in Users :
    /\ Idle
    /\ Serve("LIST_PROPERTIES", user, 0, EmptyBody, listProperties(user))

GetProperty ==
  \E user \in Users, id \in Properties \cup {GhostProperty} :
    /\ Idle
    /\ Serve("GET_PROPERTY", user, id, EmptyBody, getProperty(user, id))

\* the rows two requests leave in the Assignment table: a created row, and a
\* created row after an admin's status override
StoredRows ==
  LET created == {NewAssignment(p, u, 101, "med", NULL, 1) : p \in Properties, u \in Techs}
      override(row, st) ==
        prismaUpdate(row, adminUpdateData(row, adminUpdateSchema([EmptyBody EXCEPT !.status = st]).data, 2), 2)
  IN created \cup {override(row, st) : row \in created,
                                        st \in {"in_progress", "completed", "cancelled"}}

\* the database before the last request of the run: at most one stored
\* assignment, T1 on S1's team or released, S2 with or without a region
InitStored ==
  /\ assignments \in {<<>>} \cup {<<row>> : row \in StoredRows}
  /\ supervisorId \in {[u \in Users |-> IF u = "T1" THEN s ELSE IF u = "T2" THEN "S2" ELSE NULL] :
                         s \in {"S1", NULL}}
  /\ userRole = [u \in Users |-> role(u)]
  /\ profiles \in {[u \in Users |-> IF u = "S2" THEN [SeedProfile(u) EXCEPT !.region = g]
                                                ELSE SeedProfile(u)] : g \in {"mid", NULL}}
  /\ now = MaxTime
  /\ last = NoRequest
  /\ FreshProcess

NextStored ==
  \/ PatchTechnician \/ UpdateUser
  \/ ListAssignments \/ ListCreated \/ ListProperties \/ GetProperty
  \/ SendReply

SpecStored == InitStored /\ [][NextStored]_vars

\* the two PATCH handlers on the stored records
NextPatch == PatchAssignment \/ PatchTechnician \/ SendReply

SpecPatch == InitStored /\ [][NextPatch]_vars

\* the two read handlers of the Assignment table on the stored records
NextReads == GetAssignment \/ ListAssignments \/ SendReply

SpecReads == InitStored /\ [][NextReads]_vars

(* ------------- two requests in flight: read, then check and write ------ *)
\* Each PATCH handler awaits its findUnique, runs its checks on the record
\* that came back and awaits its update; there is no transaction and no
\* version column, so another request's read or update can fall between.

\* the `updateData` the branch of the caller's role builds
patchUpdateData(user, existing, normalizedBody, t) ==
  IF role(user) = "tech" THEN techUpdateData(techUpdateSchema(normalizedBody).data, t)
  ELSE IF role(user) \in {"admin", "repair"}
    THEN adminUpdateData(existing, adminUpdateSchema(normalizedBody).data, t)
  ELSE supervisorUpdateData(supervisorUpdateSchema(normalizedBody).data, t)

\* the checks of PATCH /api/assignments/:id on `existing`, the record its
\* findUnique returned, and `techSup`, the supervisorId included with it
patchChecks(user, id, existing, techSup, body, t) ==
  LET normalizedBody == normalizeRequestBody(body)
  IN IF role(user) = "tech" /\ existing.technicianId # user
       THEN Err(403, "You can only update your own assignments", "")
     ELSE IF role(user) = "supervisor" /\ techSup # user
       THEN Err(403, "You can only update your team's assignments", "")
     ELSE IF role(user) = "tech" THEN techPatch(id, existing, normalizedBody, t)
     ELSE IF role(user) \in {"admin", "repair"} THEN adminPatch(id, existing, normalizedBody, t)
     ELSE supervisorPatch(id, existing, normalizedBody, t)

\* the non-tech branches return `existing` without an update when a cancel
\* finds the record cancelled
returnsExisting(user, existing, body) ==
  /\ role(user) # "tech"
  /\ normalizeRequestBody(body).status = "cancelled"
  /\ existing.status = "cancelled"

\* applyPatch that writes the record the handler read, with updateData on it
applyPatch_WholeRecord(stored, existing, data, t) == prismaUpdate(existing, data, t)

\* prisma.assignment.update({where: {id}, data: updateData}) when it reaches
\* the database: the columns of updateData go onto the row as stored then
applyPatch(stored, existing, data, t) == prismaUpdate(stored, data, t)

\* patchTechnicianAfterRead that compares the stored supervisorId at the update
patchTechnicianAfterRead_Recheck(user, id, techSup, body) ==
  patchTechnician(user, id, body)

\* PATCH /api/technicians/:id from the return of its findUnique on:
\* `techSup` is techProfile.supervisorId of the record read
patchTechnicianAfterRead(user, id, techSup, body) ==
  LET updateData == patchTechnicianSchema(body).data
  IN IF role(user) = "tech" THEN
       IF id # user
         THEN TeamErr(403, "You can only update your own profile")
       ELSE IF updateData.supervisorId # UNDEF \/ updateData.active # UNDEF
         THEN TeamErr(403, "Technicians cannot update supervisorId or active status")
       ELSE profileUpdate(id, [updateData EXCEPT !.supervisorId = UNDEF, !.active = UNDEF])
     ELSE IF role(user) = "supervisor" THEN
       LET isOwnTech == techSup = user
           isUnassigned == techSup = NULL
       IN IF ~isOwnTech /\ ~isUnassigned
            THEN TeamErr(403, "You can only update technicians assigned to you or unassigned technicians")
          ELSE IF isUnassigned /\ updateData.supervisorId # UNDEF
                  /\ updateData.supervisorId # user
            THEN TeamErr(403, "You can only assign unassigned technicians to yourself")
          ELSE IF isOwnTech /\ updateData.supervisorId # UNDEF
                  /\ updateData.supervisorId # NULL /\ updateData.supervisorId # user
            THEN TeamErr(403, "You cannot assign your technicians to another supervisor")
          ELSE profileUpdate(id, updateData)
     ELSE profileUpdate(id, updateData)

RacePatchBodies ==
  {[EmptyBody EXCEPT !.status = st] : st \in {"in_progress", "completed", "cancelled"}}
  \cup {[EmptyBody EXCEPT !.notes = "note"]}

RaceTechnicianBodies ==
  {[EmptyBody EXCEPT !.supervisorId = sup] : sup \in {"S1", "S2", NULL}}
  \cup {[EmptyBody EXCEPT !.phone = "555-0199"]}

\* the request in slot q has its response
Done(q, code, msg, ret, at) ==
  inflight' = [inflight EXCEPT ![q].pc = "done", ![q].code = code, ![q].msg = msg,
                               ![q].ret = ret, ![q].at = at]

\* PATCH /api/assignments/:id up to the return of findUnique
ReadPatch ==
  \E q \in Requests, user \in {"T1", "S1"}, id \in RequestIds, body \in RacePatchBodies :
    /\ inflight[q].pc = "none"
    /\ inflight' =
         [inflight EXCEPT ![q] =
            IF id \notin DOMAIN assignments
              THEN [NoInflight EXCEPT !.pc = "done", !.op = "PATCH", !.user = user, !.id = id,
                                      !.body = body, !.code = 404, !.msg = "Assignment not found"]
            ELSE [NoInflight EXCEPT !.pc = "read", !.op = "PATCH", !.user = user, !.id = id,
                                    !.body = body, !.existing = <<assignments[id]>>,
                                    !.techSup = supervisorId[assignments[id].technicianId]]]
    /\ UNCHANGED <<assignments, supervisorId, userRole, profiles, now, last, limiter, store, calls>>

\* PATCH /api/assignments/:id from the checks to the return of the update
WritePatch ==
  \E q \in Requests :
    LET r == inflight[q]
        existing == r.existing[1]
        c == patchChecks(r.user, r.id, existing, r.techSup, r.body, now)
        data == patchUpdateData(r.user, existing, normalizeRequestBody(r.body), now)
        row == applyPatch(assignments[r.id], existing, data, now)
    IN /\ r.pc = "read" /\ r.op = "PATCH"
       /\ IF c.code # 200
            THEN Done(q, c.code, c.msg, {}, NullTime) /\ UNCHANGED <<assignments, now>>
          ELSE IF returnsExisting(r.user, existing, r.body)
            THEN Done(q, 200, "", {existing}, NullTime) /\ UNCHANGED <<assignments, now>>
          ELSE /\ assignments' = [assignments EXCEPT ![r.id] = row]
               /\ Done(q, 200, "", {row}, now)
               /\ now' = now + 1
       /\ UNCHANGED <<supervisorId, userRole, profiles, last, limiter, store, calls>>

\* PATCH /api/technicians/:id up to the return of findUnique
ReadTechnician ==
  \E q \in Requests, user \in Supervisors, id \in {"R1", "T1", GhostUser},
     body \in RaceTechnicianBodies :
    /\ inflight[q].pc = "none"
    /\ inflight' =
         [inflight EXCEPT ![q] =
            IF ~patchTechnicianSchema(body).success
              THEN [NoInflight EXCEPT !.pc = "done", !.op = "PATCH_TECHNICIAN", !.user = user,
                                      !.id = id, !.body = body, !.code = 400,
                                      !.msg = "Invalid request body"]
            ELSE IF id \notin Users
              THEN [NoInflight EXCEPT !.pc = "done", !.op = "PATCH_TECHNICIAN", !.user = user,
                                      !.id = id, !.body = body, !.code = 404,
                                      !.msg = "Technician not found"]
            ELSE [NoInflight EXCEPT !.pc = "read", !.op = "PATCH_TECHNICIAN", !.user = user,
                                    !.id = id, !.body = body, !.techSup = supervisorId[id]]]
    /\ UNCHANGED <<assignments, supervisorId, userRole, profiles, now, last, limiter, store, calls>>

\* PATCH /api/technicians/:id from the checks to the return of the update
WriteTechnician ==
  \E q \in Requests :
    LET r == inflight[q]
        c == patchTechnicianAfterRead(r.user, r.id, r.techSup, r.body)
    IN /\ r.pc = "read" /\ r.op = "PATCH_TECHNICIAN"
       /\ supervisorId' = c.sup
       /\ userRole' = c.roles
       /\ profiles' = c.prof
       /\ Done(q, c.code, c.msg, {}, IF c.code = 200 THEN now ELSE NullTime)
       /\ now' = IF c.code = 200 THEN now + 1 ELSE now
       /\ UNCHANGED <<assignments, last, limiter, store, calls>>

\* the database before the two requests: one stored assignment of T1, who is
\* on S1's team; the repair technician R1 has no supervisor
InitRace ==
  /\ assignments \in {<<row>> : row \in {x \in StoredRows : x.technicianId = "T1"
                                                            /\ x.propertyId = "P1"}}
  /\ supervisorId = [u \in Users |-> IF u = "T1" THEN "S1" ELSE IF u = "T2" THEN "S2" ELSE NULL]
  /\ userRole = [u \in Users |-> role(u)]
  /\ profiles = [u \in Users |-> SeedProfile(u)]
  /\ now = MaxTime
  /\ last = NoRequest
  /\ FreshProcess

NextRace == ReadPatch \/ WritePatch \/ ReadTechnician \/ WriteTechnician

SpecRace == InitRace /\ [][NextRace]_vars

(* ---------------------- utils/rateLimiter.ts --------------------------- *)
\* Math.ceil(ms / 1000) of a positive number of milliseconds
CeilSeconds(ms) == (ms + 999) \div 1000

\* check that starts the window anew when it denies
check_ExtendsOnDeny(config, entries, key, t) ==
  LET entry == entries[key]
  IN IF entry = NoEntry \/ t >= entry.resetAt
       THEN [allowed |-> TRUE, retryAfterSeconds |-> {},
             store |-> [entries EXCEPT ![key] = [count |-> 1, resetAt |-> t + config.windowMs]]]
     ELSE IF entry.count >= config.maxRequests
       THEN [allowed |-> FALSE, retryAfterSeconds |-> {CeilSeconds(entry.resetAt - t)},
             store |-> [entries EXCEPT ![key].resetAt = t + config.windowMs]]
     ELSE [allowed |-> TRUE, retryAfterSeconds |-> {},
           store |-> [entries EXCEPT ![key].count = @ + 1]]

\* check(key) of the limiter created with `config`, called at Date.now() = t:
\* the result (retryAfterSeconds is a set, empty when the key is absent from
\* the result) and the Map after the call
check(config, entries, key, t) ==
  LET entry == entries[key]
  IN IF entry = NoEntry \/ t >= entry.resetAt
       THEN [allowed |-> TRUE, retryAfterSeconds |-> {},
             store |-> [entries EXCEPT ![key] = [count |-> 1, resetAt |-> t + config.windowMs]]]
     ELSE IF entry.count >= config.maxRequests
       THEN [allowed |-> FALSE, retryAfterSeconds |-> {CeilSeconds(entry.resetAt - t)},
             store |-> entries]
     ELSE [allowed |-> TRUE, retryAfterSeconds |-> {},
           store |-> [entries EXCEPT ![key].count = @ + 1]]

\* cleanup that empties the Map
cleanup_All(entries, t) == [k \in DOMAIN entries |-> NoEntry]

\* cleanup(): the entries whose window is over are deleted
cleanup(entries, t) ==
  [k \in DOMAIN entries |->
     IF entries[k] # NoEntry /\ t >= entries[k].resetAt THEN NoEntry ELSE entries[k]]

\* the values of Date.now() the calls are made at: around the start of a
\* window, around a full second of it, around its end and in the next one
Instants ==
  {2, 1001, 1002, TEN_MINUTES - 999, TEN_MINUTES, TEN_MINUTES + 1, TEN_MINUTES + 2,
   2 * TEN_MINUTES + 1}

\* a caller (a route's handler) calls check(key); the answer is 429 with
\* retryAfterSeconds when the check denies
Check ==
  \E key \in LimiterKeys :
    LET r == check(limiter, store, key, now)
    IN /\ calls < MaxChecks
       /\ store' = r.store
       /\ calls' = calls + 1
       /\ last' = Response("CHECK", key, 0, EmptyBody,
                           IF r.allowed THEN 200 ELSE 429,
                           IF r.allowed THEN "" ELSE "rate_limited", "", r.retryAfterSeconds)
       /\ UNCHANGED <<assignments, supervisorId, userRole, profiles, now, inflight, limiter>>

\* the sweep of setInterval
Cleanup ==
  /\ store' = cleanup(store, now)
  /\ UNCHANGED <<assignments, supervisorId, userRole, profiles, now, last, inflight, limiter,
                 calls>>

\* time passes between two calls
Tick ==
  \E t \in Instants :
    /\ t > now
    /\ now' = t
    /\ UNCHANGED <<assignments, supervisorId, userRole, profiles, last, inflight, limiter,
                   store, calls>>

\* one of the module's limiters; every key either has no entry or the entry
\* that a first check at instant 1 and further allowed checks at that
\* instant left: count 1, one below the maximum, or the maximum
InitLimiter ==
  /\ assignments = <<>>
  /\ supervisorId = [u \in Users |-> IF u = "T1" THEN "S1" ELSE IF u = "T2" THEN "S2" ELSE NULL]
  /\ userRole = [u \in Users |-> role(u)]
  /\ profiles = [u \in Users |-> SeedProfile(u)]
  /\ now = 1
  /\ last = NoRequest
  /\ inflight = [q \in Requests |-> NoInflight]
  /\ limiter \in {estimateGenerateLimiter, estimateGenerateIpLimiter,
                  estimateSelectionLimiter, productSearchLimiter}
  /\ store \in [LimiterKeys ->
                  {NoEntry} \cup {[count |-> c, resetAt |-> 1 + limiter.windowMs] :
                                    c \in {1, limiter.maxRequests - 1, limiter.maxRequests}}]
  /\ calls = 0

NextLimiter == Check \/ Cleanup \/ Tick

SpecLimiter == InitLimiter /\ [][NextLimiter]_vars

TypeOK ==
  /\ now \in 1..(MaxTime + 1)
  /\ Len(assignments) <= MaxAssignments
  /\ \A i \in DOMAIN assignments :
       /\ assignments[i].status \in AssignmentStatus
       /\ assignments[i].priority \in AssignmentPriority
       /\ assignments[i].technicianId \in Users
       /\ assignments[i].propertyId \in Properties

(* ----------------------- vocabulary of the claims ---------------------- *)
\* this step answers a request of kind op
Answered(op) == last.op = "none" /\ last'.op = op
\* the row the request addresses, as stored before the step
TargetExists == last'.id \in DOMAIN assignments
Target == assignments[last'.id]

CancelSpellings == {"cancelled", "canceled"}

\* the callers the lifecycle lets cancel a row: the supervisor of the
\* technician's team, repair, admin
CanCancel(user, row) ==
  \/ role(user) \in {"admin", "repair"}
  \/ role(user) = "supervisor" /\ supervisorId[row.technicianId] = user

\* the row is outside the caller's read scope
OutOfScope(user, row) ==
  \/ role(user) = "tech" /\ row.technicianId # user
  \/ role(user) = "supervisor" /\ supervisorId[row.technicianId] # user

(* ------------------------------- C1 ------------------------------------ *)
\* C1: a PATCH with status cancelled/canceled on a row that is already
\* cancelled, by a caller who may cancel it, writes nothing (canceledAt and
\* canceledReason keep their values); it answers 200 with the stored row
\* whenever the body carries no key that is checked before the cancel branch
\* (technicianId, propertyId, completedAt).
C1_IdempotentCancel ==
  [][ (/\ Answered("PATCH") /\ TargetExists
       /\ Target.status = "cancelled"
       /\ last'.body.status \in CancelSpellings
       /\ CanCancel(last'.user, Target))
      => /\ assignments' = assignments
         /\ Present(last'.body) \cap {"technicianId", "propertyId", "completedAt"} = {}
              => last'.code = 200 /\ last'.ret = {Target} ]_vars

\* a supervisor repeated the cancel of an own-team row and got the row back
\* with the canceledAt of the first cancel
C1_Witness ==
  /\ last.op = "PATCH" /\ last.code = 200
  /\ last.body.status = "canceled"
  /\ role(last.user) = "supervisor"
  /\ last.id \in DOMAIN assignments
  /\ assignments[last.id].status = "cancelled"
  /\ assignments[last.id].canceledAt # NullTime
  /\ assignments[last.id].canceledAt < now - 1
  /\ last.ret = {assignments[last.id]}

(* ------------------------------- C2 ------------------------------------ *)
\* C2: a tech's PATCH on an own row whose status is cancelled/canceled is
\* answered 403 'Technicians cannot cancel assignments' whatever the row's
\* status and whatever else the body carries, and writes nothing.
C2_TechCannotCancel ==
  [][ (/\ Answered("PATCH") /\ TargetExists
       /\ role(last'.user) = "tech"
       /\ Target.technicianId = last'.user
       /\ last'.body.status \in CancelSpellings)
      => /\ last'.code = 403
         /\ last'.msg = "Technicians cannot cancel assignments"
         /\ assignments' = assignments ]_vars

\* a tech tried to cancel an own completed row (where the transition table
\* has no entry either) and got the technician-specific 403
C2_Witness ==
  /\ last.op = "PATCH" /\ role(last.user) = "tech"
  /\ last.body.status \in CancelSpellings
  /\ last.id \in DOMAIN assignments
  /\ assignments[last.id].technicianId = last.user
  /\ assignments[last.id].status = "completed"
  /\ last.code = 403
  /\ last.msg = "Technicians cannot cancel assignments"

C4_CompletedAtIffCompleted ==
  \A i \in DOMAIN assignments :
    (assignments[i].completedAt # NullTime) <=> (assignments[i].status = "completed")

(* ------------------------------- C5 ------------------------------------ *)
\* C5: in every reachable state an assignment's canceledAt or canceledReason
\* is non-null only if its status is cancelled.
C5_CanceledOnlyWhenCancelled ==
  \A i \in DOMAIN assignments :
    (assignments[i].canceledAt # NullTime \/ assignments[i].canceledReason # NULL)
      => assignments[i].status = "cancelled"

(* ------------------------------- C6 ------------------------------------ *)
\* C6: a tech's PATCH on an own row that asks for one of the statuses of the
\* tech schema (pending, in_progress, completed; asking for cancelled is the
\* case of C2) and carries no key besides status and notes is accepted exactly
\* for pending -> in_progress and in_progress -> completed; every other pair
\* of current and requested status, the same status twice included, is
\* answered 400 'Invalid status transition' and writes nothing.
C6_TechTransitions ==
  [][ (/\ Answered("PATCH") /\ TargetExists
       /\ role(last'.user) = "tech"
       /\ Target.technicianId = last'.user
       /\ last'.body.status \in {"pending", "in_progress", "completed"}
       /\ Present(last'.body) \subseteq {"status", "notes"})
      => IF <<Target.status, last'.body.status>>
              \in {<<"pending", "in_progress">>, <<"in_progress", "completed">>}
           THEN /\ last'.code = 200
                /\ assignments'[last'.id].status = last'.body.status
           ELSE /\ last'.code = 400
                /\ last'.msg = "Invalid status transition"
                /\ assignments' = assignments ]_vars

\* a tech asked to move an own completed row back to in_progress and was
\* refused with the transition error
C6_Witness ==
  /\ last.op = "PATCH" /\ role(last.user) = "tech"
  /\ last.id \in DOMAIN assignments
  /\ assignments[last.id].technicianId = last.user
  /\ assignments[last.id].status = "completed"
  /\ last.body.status = "in_progress"
  /\ last.code = 400 /\ last.msg = "Invalid status transition"

(* ------------------------------- C7 ------------------------------------ *)
\* C7: a supervisor's PATCH with status cancelled on an own-team row whose
\* status is completed is rejected as an invalid transition and leaves
\* status completed and completedAt unchanged.
C7_SupervisorCannotCancelCompleted ==
  [][ (/\ Answered("PATCH") /\ TargetExists
       /\ role(last'.user) = "supervisor"
       /\ supervisorId[Target.technicianId] = last'.user
       /\ Target.status = "completed"
       /\ last'.body.status \in CancelSpellings)
      => /\ last'.code = 400
         /\ assignments'[last'.id].status = "completed"
         /\ assignments'[last'.id].completedAt = Target.completedAt ]_vars

(* ------------------------------- C8 ------------------------------------ *)
\* C8: a PATCH served for a tech or a supervisor never changes the status of
\* a row that is cancelled; a PATCH that moves a row out of cancelled is
\* served for admin or repair.
C8_CancelledIsTerminal ==
  [][ \A i \in DOMAIN assignments :
        (/\ Answered("PATCH")
         /\ assignments[i].status = "cancelled"
         /\ assignments'[i].status # "cancelled")
        => role(last'.user) \in {"admin", "repair"} ]_vars

\* a supervisor's PATCH was applied to an own-team cancelled row (the
\* priority was written) and the row is still cancelled
C8_Witness ==
  /\ last.op = "PATCH" /\ role(last.user) = "supervisor"
  /\ last.code = 200
  /\ last.body.priority = "high"
  /\ last.id \in DOMAIN assignments
  /\ assignments[last.id].status = "cancelled"
  /\ assignments[last.id].priority = "high"
  /\ assignments[last.id].canceledAt < assignments[last.id].updatedAt

(* ------------------------------- C9 ------------------------------------ *)
\* C9: a tech's PATCH on an own row whose body carries a key the tech may not
\* set is answered 403 naming that key, also when the body carries a status
\* of the tech schema (legal or not from the current status; asking for
\* cancelled is the case of C2); of several such keys the first in
\* declaration order (the handler's list, then completedAt) is named.
C9_FieldMatrixPrecedence ==
  [][ (/\ Answered("PATCH") /\ TargetExists
       /\ role(last'.user) = "tech"
       /\ Target.technicianId = last'.user
       /\ last'.body.status \notin CancelSpellings
       /\ Present(last'.body) \ {"status", "notes"} # {})
      => /\ last'.code = 403
         /\ last'.field =
              FirstForbidden(<<"priority", "scheduledDate", "technicianId", "propertyId",
                               "canceledReason", "canceledAt", "completedAt">>,
                             last'.body) ]_vars

(* ------------------------------- C10 ----------------------------------- *)
\* C10: a tech's PATCH on an own row whose body carries any key other than
\* status and notes is answered 403 and writes nothing.
C10_TechFieldsRejected ==
  [][ (/\ Answered("PATCH") /\ TargetExists
       /\ role(last'.user) = "tech"
       /\ Target.technicianId = last'.user
       /\ Present(last'.body) \ {"status", "notes"} # {})
      => /\ last'.code = 403
         /\ assignments' = assignments ]_vars

(* ------------------------------- C11 ----------------------------------- *)
\* C11: a PATCH that is answered 200 with status completed requested sets
\* completedAt to the current time when the stored completedAt was null and
\* keeps the stored completedAt when it was already set (so a repeated
\* {status: completed} never changes completedAt).
C11_CompletionStamp ==
  [][ (/\ Answered("PATCH") /\ TargetExists
       /\ last'.body.status = "completed"
       /\ last'.code = 200)
      => /\ assignments'[last'.id].status = "completed"
         /\ assignments'[last'.id].completedAt =
              IF Target.completedAt = NullTime THEN now ELSE Target.completedAt ]_vars

(* ------------------------------- C12 ----------------------------------- *)
\* C12: a PATCH with status cancelled/canceled by a supervisor, repair or
\* admin that is answered 200 on a row that was not cancelled sets status
\* cancelled, canceledAt to the current time and completedAt to null; it
\* stores the body's canceledReason when the body carries one (a non-empty
\* string) and otherwise leaves the stored canceledReason as it was.
C12_CancelEffects ==
  [][ (/\ Answered("PATCH") /\ TargetExists
       /\ role(last'.user) \in {"supervisor", "repair", "admin"}
       /\ Target.status # "cancelled"
       /\ last'.body.status \in CancelSpellings
       /\ last'.code = 200)
      => /\ assignments'[last'.id].status = "cancelled"
         /\ assignments'[last'.id].canceledAt = now
         /\ assignments'[last'.id].completedAt = NullTime
         /\ assignments'[last'.id].canceledReason =
              IF last'.body.canceledReason \notin {UNDEF, ""}
                THEN last'.body.canceledReason ELSE Target.canceledReason ]_vars

\* a supervisor cancelled an own-team row with a reason: the row is cancelled,
\* stamped by this request, without completedAt, and carries the reason
C12_Witness ==
  /\ last.op = "PATCH" /\ last.code = 200
  /\ role(last.user) = "supervisor"
  /\ last.body.status \in CancelSpellings
  /\ last.body.canceledReason = "rescheduled"
  /\ last.id \in DOMAIN assignments
  /\ assignments[last.id].status = "cancelled"
  /\ assignments[last.id].canceledAt = now - 1
  /\ assignments[last.id].completedAt = NullTime
  /\ assignments[last.id].canceledReason = "rescheduled"

(* ------------------------------- C13 ----------------------------------- *)
\* C13: a supervisor's PATCH /api/technicians/:id changes the profile's
\* supervisorId only from null to the supervisor's own id (claim) or from
\* the own id to null (release), never to another user's id; on a profile
\* whose supervisorId is somebody else's id it is answered 403 (400 for a
\* body the schema rejects) and changes no field of any profile.
C13_SupervisorClaimRelease ==
  [][ (/\ Answered("PATCH_TECHNICIAN")
       /\ role(last'.user) = "supervisor"
       /\ last'.id \in Users)
      => /\ \A u \in Users \ {last'.id} : supervisorId'[u] = supervisorId[u]
         /\ supervisorId'[last'.id] # supervisorId[last'.id]
              => \/ supervisorId[last'.id] = NULL /\ supervisorId'[last'.id] = last'.user
                 \/ supervisorId[last'.id] = last'.user /\ supervisorId'[last'.id] = NULL
         /\ supervisorId[last'.id] \notin {NULL, last'.user}
              => /\ last'.code = IF last'.body.name = "" THEN 400 ELSE 403
                 /\ UNCHANGED <<supervisorId, profiles, userRole>> ]_vars

\* supervisor S1 claimed the unassigned repair technician
C13_Witness ==
  /\ last.op = "PATCH_TECHNICIAN" /\ last.code = 200
  /\ last.user = "S1" /\ last.id = "R1"
  /\ last.body.supervisorId = "S1"
  /\ supervisorId["R1"] = "S1"

(* ------------------------------- C14 ----------------------------------- *)
\* C14: a supervisor's PATCH /api/technicians/:id changes active, name,
\* phone or truckId of a profile only when the profile's supervisorId was
\* the supervisor's id before the request; on a profile whose supervisorId
\* is null or another user's id a body carrying one of these keys is
\* answered 403 and nothing is written.
C14_SameTeamWrite ==
  [][ (/\ Answered("PATCH_TECHNICIAN")
       /\ role(last'.user) = "supervisor"
       /\ last'.id \in Users
       /\ supervisorId[last'.id] # last'.user)
      => /\ profiles'[last'.id] = profiles[last'.id]
         /\ Present(last'.body) \cap {"active", "name", "phone", "truckId"} # {}
              => /\ last'.code = 403
                 /\ UNCHANGED <<supervisorId, profiles, userRole>> ]_vars

(* ------------------------------- C15 ----------------------------------- *)
\* C15: every profile's supervisorId is null or the id of an existing user
\* whose role is supervisor.
C15_SupervisorReference ==
  \A u \in Users :
    supervisorId[u] # NULL
      => supervisorId[u] \in Users /\ userRole[supervisorId[u]] = "supervisor"

(* ------------------------------- C16 ----------------------------------- *)
\* C16: GET /api/assignments returns to a tech only rows whose technicianId
\* is the caller and to a supervisor only rows of technicians whose profile
\* has supervisorId equal to the caller, whatever technicianId, propertyId,
\* status, priority or includeCanceled the query carries; to an admin who
\* asks for all rows (includeCanceled and no filter) it returns every row.
C16_ListScope ==
  [][ Answered("LIST")
      => /\ role(last'.user) = "tech"
              => \A row \in last'.ret : row.technicianId = last'.user
         /\ role(last'.user) = "supervisor"
              => \A row \in last'.ret : supervisorId[row.technicianId] = last'.user
         /\ (role(last'.user) = "admin" /\ Present(last'.body) = {"includeCanceled"})
              => last'.ret = {assignments[i] : i \in DOMAIN assignments}
         /\ last'.ret \subseteq {assignments[i] : i \in DOMAIN assignments}
         /\ last'.code = 200 ]_vars

\* supervisor S2 asked for the rows of technician T1, who is not on S2's
\* team and has a row that is not cancelled, and got an empty list
C16_Witness ==
  /\ last.op = "LIST" /\ last.user = "S2"
  /\ last.body.technicianId = "T1"
  /\ last.body.status = UNDEF
  /\ \E i \in DOMAIN assignments :
       assignments[i].technicianId = "T1" /\ assignments[i].status # "cancelled"
  /\ last.ret = {}

(* ------------------------------- C17 ----------------------------------- *)
\* C17: for a supervisor GET /api/properties lists exactly the properties
\* whose region is the supervisor's region or that have an assignment of a
\* technician of the supervisor's team, the empty list when there is neither
\* a region nor a team assignment; GET /api/properties/:id answers 200 for
\* the properties of that set and 404 for every other id.
C17_PropertyScope ==
  [][ LET sup == last'.user
          visible ==
            {p \in Properties :
               \/ profiles[sup].region # NULL /\ propertyRegion(p) = profiles[sup].region
               \/ \E i \in DOMAIN assignments :
                    /\ assignments[i].propertyId = p
                    /\ supervisorId[assignments[i].technicianId] = sup}
      IN role(sup) = "supervisor"
         => /\ Answered("LIST_PROPERTIES") => last'.code = 200 /\ last'.ret = visible
            /\ Answered("GET_PROPERTY")
                 => IF last'.id \in visible
                      THEN last'.code = 200 /\ last'.ret = {last'.id}
                      ELSE last'.code = 404 /\ last'.ret = {} ]_vars

\* supervisor S1 (region north) listed the properties while T1 of the team
\* has a row on P2 (region mid): both P1 and P2 are listed
C17_Witness ==
  /\ last.op = "LIST_PROPERTIES" /\ last.user = "S1"
  /\ supervisorId["T1"] = "S1"
  /\ \E i \in DOMAIN assignments :
       assignments[i].propertyId = "P2" /\ assignments[i].technicianId = "T1"
  /\ last.ret = {"P1", "P2"}

C19_TechnicianReference ==
  \A i \in DOMAIN assignments :
    /\ assignments[i].technicianId \in Users
    /\ userRole[assignments[i].technicianId] = "tech"

(* ------------------------------- C20 ----------------------------------- *)
\* C20: a PATCH /api/assignments/:id or PATCH /api/technicians/:id that is
\* answered 400, 403 or 404 leaves every stored field of every assignment
\* and of every profile unchanged.
C20_ErrorsWriteNothing ==
  [][ (/\ Answered("PATCH") \/ Answered("PATCH_TECHNICIAN")
       /\ last'.code \in {400, 403, 404})
      => UNCHANGED <<assignments, supervisorId, userRole, profiles>> ]_vars

\* tech T1 asked to be deactivated and renamed in one PATCH of the own
\* profile: the answer is 403 and the profile still holds the seeded values
C20_Witness ==
  /\ last.op = "PATCH_TECHNICIAN" /\ last.user = "T1" /\ last.id = "T1"
  /\ last.body.active = "false" /\ last.body.name = "Pat Lee"
  /\ last.code = 403
  /\ last.msg = "Technicians cannot update supervisorId or active status"
  /\ profiles["T1"] = SeedProfile("T1")

(* ------------------------------- C21 ----------------------------------- *)
\* C21: a PATCH by a caller in scope whose status is the row's current
\* status is never answered 'Invalid status transition'; when the body
\* carries nothing but status and notes and the row is not cancelled it is
\* answered 200 and the notes of the body are stored.
C21_SameStatusSkipsCheck ==
  [][ (/\ Answered("PATCH") /\ TargetExists
       /\ ~OutOfScope(last'.user, Target)
       /\ normalizeStatus(last'.body.status) = Target.status)
      => /\ last'.msg # "Invalid status transition"
         /\ (Present(last'.body) \subseteq {"status", "notes"} /\ Target.status # "cancelled")
              => /\ last'.code = 200
                 /\ last'.body.notes # UNDEF
                      => assignments'[last'.id].notes = last'.body.notes ]_vars

(* ------------------------------- C22 ----------------------------------- *)
\* C22: when a PATCH by a supervisor, repair or admin is answered 200 and
\* writes the row, every key among priority, scheduledDate and notes that
\* the body carries is stored with its value, also when the body sets the
\* status to cancelled.
C22_PayloadApplied ==
  [][ (/\ Answered("PATCH") /\ TargetExists
       /\ role(last'.user) \in {"supervisor", "repair", "admin"}
       /\ last'.code = 200
       /\ assignments' # assignments)
      => LET row == assignments'[last'.id]
             body == last'.body
         IN /\ Truthy(body.priority) => row.priority = body.priority
            /\ Truthy(body.scheduledDate) => row.scheduledDate = ParseDate(body.scheduledDate)
            /\ body.notes # UNDEF => row.notes = body.notes ]_vars

(* ------------------------------- C23 ----------------------------------- *)
\* C23: a supervisor's PATCH on a row of an own-team technician leaves
\* technicianId and propertyId, leaves completedAt or clears it (never the
\* body's value), and changes the status to cancelled or not at all; a body
\* with a status other than cancelled/canceled, or with technicianId,
\* propertyId or completedAt, is answered 400 or 403 and writes nothing.
C23_SupervisorFieldLimits ==
  [][ (/\ Answered("PATCH") /\ TargetExists
       /\ role(last'.user) = "supervisor"
       /\ supervisorId[Target.technicianId] = last'.user)
      => LET row == assignments'[last'.id]
             body == last'.body
         IN /\ row.technicianId = Target.technicianId
            /\ row.propertyId = Target.propertyId
            /\ row.completedAt \in {Target.completedAt, NullTime}
            /\ row.status \in {Target.status, "cancelled"}
            /\ (\/ body.status \notin {UNDEF} \cup CancelSpellings
                \/ Present(body) \cap {"technicianId", "propertyId", "completedAt"} # {})
                 => last'.code \in {400, 403} /\ assignments' = assignments ]_vars

\* a supervisor sent a completedAt for a completed row of the own team and
\* was refused with the field named
C23_Witness ==
  /\ last.op = "PATCH" /\ role(last.user) = "supervisor"
  /\ last.id \in DOMAIN assignments
  /\ supervisorId[assignments[last.id].technicianId] = last.user
  /\ assignments[last.id].status = "completed"
  /\ last.body.completedAt # UNDEF
  /\ last.code = 403 /\ last.field = "completedAt"

(* ------------------------------- C25 ----------------------------------- *)
\* C25: POST /api/properties/:id/complete writes an assignment only under
\* the rules of PATCH: for a tech caller only an own row, only a row that is
\* in_progress, and only a row whose propertyId is the :id of the path; in
\* every other case the table is left as it was.
C25_CompleteUnderPatchRules ==
  [][ (/\ Answered("COMPLETE")
       /\ assignments' # assignments)
      => /\ TargetExists
         /\ Target.propertyId = last'.body.propertyId
         /\ role(last'.user) = "tech"
              => /\ Target.technicianId = last'.user
                 /\ Target.status = "in_progress" ]_vars

(* ------------------------------- C26 ----------------------------------- *)
\* C26: for every caller and every stored row, a PATCH whose status is
\* spelled canceled is answered and applied exactly as the same body with
\* the spelling cancelled, and no stored row ever has the status canceled.
C26_SpellingNormalized ==
  [][ (/\ Answered("PATCH")
       /\ last'.body.status = "canceled")
      => LET r == patchAssignment(last'.user, last'.id,
                                  [last'.body EXCEPT !.status = "cancelled"], now)
         IN /\ last'.code = r.code /\ last'.msg = r.msg /\ last'.field = r.field
            /\ last'.ret = r.ret
            /\ assignments' = r.table
            /\ \A i \in DOMAIN assignments' : assignments'[i].status # "canceled" ]_vars

\* an admin cancelled an in_progress row with the spelling canceled and a
\* reason; the row is stored as cancelled
C26_Witness ==
  /\ last.op = "PATCH" /\ last.code = 200
  /\ last.user = "AD"
  /\ last.body.status = "canceled"
  /\ last.body.canceledReason = "rescheduled"
  /\ last.id \in DOMAIN assignments
  /\ assignments[last.id].status = "cancelled"
  /\ assignments[last.id].canceledAt = now - 1
  /\ assignments[last.id].canceledReason = "rescheduled"

(* ------------------------------- C24 ----------------------------------- *)
\* C24 as stated: what GET /api/assignments and GET /api/assignments/:id
\* return to a repair caller are rows whose technicianId is the caller.
C24_RepairScopedAsTech ==
  (/\ last.op \in {"GET", "LIST"}
   /\ role(last.user) = "repair"
   /\ last.code = 200)
  => \A row \in last.ret : row.technicianId = last.user

\* C24 amended: a repair caller's reads are not scoped by technician: GET
\* /api/assignments/:id returns every existing row, and GET /api/assignments
\* returns what an admin gets for the same query, which without a
\* technicianId, propertyId, priority or status filter and with
\* includeCanceled is the whole table.
C24_RepairUnscoped ==
  [][ /\ (Answered("GET") /\ role(last'.user) = "repair" /\ TargetExists)
         => last'.code = 200 /\ last'.ret = {Target}
      /\ (Answered("LIST") /\ role(last'.user) = "repair")
         => /\ last'.code = 200
            /\ last'.ret = listAssignments("AD", last'.body).ret
            /\ Present(last'.body) = {"includeCanceled"}
                 => last'.ret = {assignments[i] : i \in DOMAIN assignments} ]_vars

\* the repair user read by id an in_progress row that belongs to tech T1
C24_Witness ==
  /\ last.op = "GET" /\ last.user = "R1" /\ last.code = 200
  /\ last.id \in DOMAIN assignments
  /\ assignments[last.id].technicianId = "T1"
  /\ assignments[last.id].status = "in_progress"
  /\ last.ret = {assignments[last.id]}

(* ------------------------------- C27 ----------------------------------- *)
\* C27 as stated: after a tech's PATCH {status: completed} and a
\* supervisor's PATCH {status: cancelled} on the same in_progress row, in
\* whatever way their reads and writes interleave, the row is one a
\* sequential order produces: it is never completed with a canceledAt.
C27_Serializable ==
  \A p, q \in Requests :
    (/\ inflight[p].pc = "done" /\ inflight[q].pc = "done"
     /\ inflight[p].op = "PATCH" /\ inflight[q].op = "PATCH"
     /\ inflight[p].id = inflight[q].id
     /\ role(inflight[p].user) = "tech" /\ inflight[p].body.status = "completed"
     /\ role(inflight[q].user) = "supervisor" /\ inflight[q].body.status = "cancelled"
     /\ inflight[p].id \in DOMAIN assignments)
    => ~(/\ assignments[inflight[p].id].status = "completed"
         /\ assignments[inflight[p].id].canceledAt # NullTime)

\* C27 amended: when both handlers have read the in_progress row before
\* either writes, both are answered 200 and the later update goes column by
\* column onto the earlier one: the supervisor's update last leaves the row
\* cancelled with completedAt null; the tech's update last leaves it
\* completed with its completedAt and with the canceledAt of the cancel.  A
\* tech's handler that read the row after the cancel is answered 400.
C27_LastWriterWins ==
  \A p, q \in Requests :
    (/\ inflight[p].pc = "done" /\ inflight[q].pc = "done"
     /\ inflight[p].op = "PATCH" /\ inflight[q].op = "PATCH"
     /\ inflight[p].id = inflight[q].id
     /\ inflight[p].user = "T1" /\ inflight[p].body.status = "completed"
     /\ inflight[q].user = "S1" /\ inflight[q].body.status = "cancelled"
     /\ inflight[q].existing # <<>> /\ inflight[p].existing # <<>>
     /\ inflight[q].existing[1].status = "in_progress")
    => LET row == assignments[inflight[p].id]
       IN /\ inflight[q].code = 200
          /\ inflight[p].existing[1].status = "cancelled"
               => /\ inflight[p].code = 400
                  /\ inflight[p].msg = "Invalid status transition"
                  /\ row.status = "cancelled" /\ row.completedAt = NullTime
          /\ inflight[p].existing[1].status = "in_progress"
               => /\ inflight[p].code = 200
                  /\ row.canceledAt = inflight[q].at
                  /\ IF inflight[p].at > inflight[q].at
                       THEN row.status = "completed" /\ row.completedAt = inflight[p].at
                     ELSE row.status = "cancelled" /\ row.completedAt = NullTime

\* both handlers read the in_progress row, the supervisor's cancel was
\* written first and the tech's completion after it: the row is completed
\* and still carries the canceledAt of the cancel
C27_Witness ==
  \E p, q \in Requests :
    /\ inflight[p].pc = "done" /\ inflight[q].pc = "done"
    /\ inflight[p].op = "PATCH" /\ inflight[q].op = "PATCH"
    /\ inflight[p].user = "T1" /\ inflight[p].body.status = "completed"
    /\ inflight[q].user = "S1" /\ inflight[q].body.status = "cancelled"
    /\ inflight[p].id = 1 /\ inflight[q].id = 1
    /\ inflight[p].code = 200 /\ inflight[q].code = 200
    /\ inflight[p].at > inflight[q].at /\ inflight[q].at # NullTime
    /\ assignments[1].status = "completed"
    /\ assignments[1].completedAt = inflight[p].at
    /\ assignments[1].canceledAt = inflight[q].at

(* ------------------------------- C28 ----------------------------------- *)
\* C28 as stated: of two PATCH /api/technicians/:id requests by different
\* supervisors, each setting supervisorId to the own id on a technician
\* that was unassigned when the first of them read it, at most one is
\* answered 200 and the other is answered 403.
C28_OneClaimWins ==
  \A p, q \in Requests :
    (/\ p # q
     /\ inflight[p].pc = "done" /\ inflight[q].pc = "done"
     /\ inflight[p].op = "PATCH_TECHNICIAN" /\ inflight[q].op = "PATCH_TECHNICIAN"
     /\ inflight[p].id = inflight[q].id /\ inflight[p].id \in Users
     /\ inflight[p].user # inflight[q].user
     /\ inflight[p].body.supervisorId = inflight[p].user
     /\ inflight[q].body.supervisorId = inflight[q].user
     /\ inflight[p].techSup = NULL)
    => /\ inflight[p].code = 200
       /\ inflight[q].code = 403

\* C28 amended: when both handlers have read the unassigned profile before
\* either writes, both requests are answered 200 and the technician belongs
\* to the supervisor whose update came last; the second request is answered
\* 403 only when its handler read the profile after the first update, and
\* the technician then stays with the first supervisor.
C28_BothClaimsSucceed ==
  \A p, q \in Requests :
    (/\ p # q
     /\ inflight[p].pc = "done" /\ inflight[q].pc = "done"
     /\ inflight[p].op = "PATCH_TECHNICIAN" /\ inflight[q].op = "PATCH_TECHNICIAN"
     /\ inflight[p].id = inflight[q].id /\ inflight[p].id \in Users
     /\ inflight[p].user # inflight[q].user
     /\ inflight[p].body.supervisorId = inflight[p].user
     /\ inflight[q].body.supervisorId = inflight[q].user
     /\ inflight[p].techSup = NULL)
    => /\ inflight[p].code = 200
       /\ inflight[q].techSup = NULL
            => /\ inflight[q].code = 200
               /\ supervisorId[inflight[p].id] =
                    IF inflight[p].at > inflight[q].at THEN inflight[p].user ELSE inflight[q].user
       /\ inflight[q].techSup = inflight[p].user
            => /\ inflight[q].code = 403
               /\ supervisorId[inflight[p].id] = inflight[p].user

\* S1 and S2 both read the unassigned repair technician, both claims were
\* answered 200, and the technician is on the team of S2, who wrote last
C28_Witness ==
  \E p, q \in Requests :
    /\ inflight[p].pc = "done" /\ inflight[q].pc = "done"
    /\ inflight[p].op = "PATCH_TECHNICIAN" /\ inflight[q].op = "PATCH_TECHNICIAN"
    /\ inflight[p].id = "R1" /\ inflight[q].id = "R1"
    /\ inflight[p].user = "S1" /\ inflight[p].body.supervisorId = "S1"
    /\ inflight[q].user = "S2" /\ inflight[q].body.supervisorId = "S2"
    /\ inflight[p].techSup = NULL /\ inflight[q].techSup = NULL
    /\ inflight[p].code = 200 /\ inflight[q].code = 200
    /\ inflight[p].at < inflight[q].at
    /\ supervisorId["R1"] = "S2"

(* ------------------------------- C29 ----------------------------------- *)
\* C29: for every limiter and key, whatever the order of check and cleanup
\* calls: while a key's window runs (now < resetAt) its entry is neither
\* deleted nor restarted and changes only by an allowed check that raises
\* count by one up to maxRequests, so the window admits at most maxRequests
\* checks; a check on a full window is denied with retryAfterSeconds >= 1.
C29_WindowBound ==
  [][ \A k \in LimiterKeys :
        LET e == store[k]
            inWindow == e # NoEntry /\ now < e.resetAt
            checked == calls' = calls + 1 /\ last'.op = "CHECK" /\ last'.user = k
        IN /\ e # NoEntry => e.count \in 1..limiter.maxRequests
           /\ inWindow
                => \/ store'[k] = e
                   \/ /\ checked /\ last'.code = 200
                      /\ e.count < limiter.maxRequests
                      /\ store'[k] = [e EXCEPT !.count = e.count + 1]
           /\ (checked /\ last'.code = 200)
                => \/ inWindow /\ store'[k].count = e.count + 1
                   \/ ~inWindow /\ store'[k] = [count |-> 1, resetAt |-> now + limiter.windowMs]
           /\ (checked /\ inWindow /\ e.count >= limiter.maxRequests)
                => /\ last'.code = 429
                   /\ last'.ret # {}
                   /\ \A n \in last'.ret : n >= 1 ]_vars

\* after an allowed check the next check of the key, one millisecond before
\* resetAt on a full window, was denied with retryAfterSeconds 1
C29_Witness ==
  /\ last.op = "CHECK" /\ last.code = 429
  /\ last.ret = {1}
  /\ calls >= 2
  /\ store[last.user].count = limiter.maxRequests
  /\ now = store[last.user].resetAt - 1

(* ------------------------------- C30 ----------------------------------- *)
\* C30: a denied check leaves the Map as it was (count and resetAt of the
\* key included), and a check of a key at or after its entry's resetAt is
\* allowed and replaces the entry by a new window with count 1.
C30_DeniedLeavesEntry ==
  [][ \A k \in LimiterKeys :
        (calls' = calls + 1 /\ last'.op = "CHECK" /\ last'.user = k)
        => /\ last'.code = 429 => store' = store
           /\ (store[k] # NoEntry /\ now >= store[k].resetAt)
                => /\ last'.code = 200
                   /\ store'[k] = [count |-> 1, resetAt |-> now + limiter.windowMs] ]_vars

\* the last of three checks of a key came when the window that began at
\* instant 1 was over; it was allowed and began a window with count 1
C30_Witness ==
  /\ last.op = "CHECK" /\ last.code = 200
  /\ calls = MaxChecks
  /\ now >= 1 + limiter.windowMs
  /\ store[last.user] = [count |-> 1, resetAt |-> now + limiter.windowMs]

====
